---------------------------- MODULE Spec2Model ----------------------------
(***************************************************************************)
(* A model of src/app.py: the retrieval policy (live fetch, cache store,   *)
(* bundled sample) and the payload normalization pipeline.                 *)
(*                                                                         *)
(* Python values are tagged records [t |-> tag, v |-> value]: JSON null    *)
(* is Python's None; a dict is the sequence of its <<key, value>> pairs in *)
(* insertion order; a float is an exact rational <<numerator,              *)
(* denominator>> in lowest terms.                                          *)
(*                                                                         *)
(* Spec     the retrieval policy, one step of retrieve_payload per action, *)
(*          with a store and a sample file that can be read and written.   *)
(* SpecIO   Spec, and each storage step may raise instead.                 *)
(* SpecNorm normalize_locations applied to payloads of a bounded family.   *)
(* SpecIcon resolve_icon applied to slots of a bounded family.             *)
(***************************************************************************)
EXTENDS Integers, Sequences, FiniteSets, TLC

VARIABLES
    pc,          \* position of the retrieve_payload call
    calls,       \* calls of retrieve_payload started so far
    now,         \* the clock datetime.utcnow() reads
    table,       \* whether forecast_cache exists in data.db
    rows,        \* the rows of forecast_cache, in insertion order
    seq,         \* sqlite's AUTOINCREMENT counter for forecast_cache
    sampleFile,  \* the text of the bundled sample file, or NoFile
    response,    \* what requests.get met in the current call
    payload,     \* retrieve_payload's local `payload`
    exc,         \* retrieve_payload's local `exc` (the fetch failure)
    result,      \* the tuple retrieve_payload returned
    raised,      \* the exception that left retrieve_payload
    rows0,       \* history: rows when the current call started
    lastLive,    \* history: the payload of the latest successful fetch
    npc,         \* position of the normalize_locations call
    npayload,    \* the argument of normalize_locations
    nresult,     \* what normalize_locations returned, or that it raised
    ntype,       \* what determine_dataset_type returned for that list
    ipc,         \* position of the resolve_icon call
    islot,       \* the argument of resolve_icon
    iicon,       \* the icon resolve_icon returned
    lpc,         \* position of the load_forecast_data call
    lkey,        \* the api_key of that call
    lcalls,      \* calls of retrieve_payload started before that call
    dcache,      \* st.cache_data's entry for each api_key, or NoEntry
    ldataset,    \* what load_forecast_data returned
    waits,       \* waits so far
    hstored      \* history: the last entry stored for each api_key

retrievalVars ==
    <<pc, calls, now, table, rows, seq, sampleFile, response, payload, exc,
      result, raised, rows0, lastLive>>
normVars == <<npc, npayload, nresult, ntype>>
iconVars == <<ipc, islot, iicon>>
cacheVars == <<lpc, lkey, lcalls, dcache, ldataset, waits, hstored>>
vars == <<retrievalVars, normVars, iconVars, cacheVars>>

(***************************************************************************)
(* Bounds of the model.                                                    *)
(***************************************************************************)
MaxCalls == 3
MaxTime == 1
MaxSeriesLen == 2
MaxLocations == 2
MaxTideTimes == 2
MaxCodeLen == 3
MaxTextLen == 2
MaxWaits == 2
MaxLoads == 2

(***************************************************************************)
(* Python and JSON values.                                                 *)
(***************************************************************************)
JNull == [t |-> "null", v |-> 0]
JBool(b) == [t |-> "bool", v |-> b]
JNum(n) == [t |-> "num", v |-> n]
JStr(s) == [t |-> "str", v |-> s]
JList(l) == [t |-> "list", v |-> l]
JDict(d) == [t |-> "dict", v |-> d]

None == JNull
IsNone(x) == x.t = "null"
IsDict(x) == x.t = "dict"
IsList(x) == x.t = "list"
IsStr(x) == x.t = "str"

\* bool(x)
Truthy(x) ==
    CASE x.t = "null" -> FALSE
      [] x.t = "bool" -> x.v
      [] x.t = "num" -> x.v # 0
      [] x.t = "float" -> x.v[1] # 0
      [] x.t = "str" -> x.v # ""
      [] x.t = "list" -> x.v # <<>>
      [] x.t = "dict" -> x.v # <<>>
      [] OTHER -> TRUE

\* a or b
PyOr(a, b) == IF Truthy(a) THEN a ELSE b

HasKey(d, k) == \E i \in 1..Len(d.v) : d.v[i][1] = k

\* d.get(k, default)
GetDefault(d, k, default) ==
    IF HasKey(d, k)
    THEN d.v[CHOOSE i \in 1..Len(d.v) : d.v[i][1] = k][2]
    ELSE default

\* d.get(k)
Get(d, k) == GetDefault(d, k, None)

(***************************************************************************)
(* json.dumps writes a value as text; json.loads reads the text back.      *)
(***************************************************************************)
RECURSIVE json_dumps(_)
RECURSIVE DumpItems(_, _)
RECURSIVE DumpPairs(_, _)

DumpItems(l, i) ==
    IF i > Len(l) THEN ""
    ELSE (IF i > 1 THEN ", " ELSE "") \o json_dumps(l[i]) \o DumpItems(l, i + 1)

DumpPairs(d, i) ==
    IF i > Len(d) THEN ""
    ELSE (IF i > 1 THEN ", " ELSE "") \o "\"" \o d[i][1] \o "\": "
         \o json_dumps(d[i][2]) \o DumpPairs(d, i + 1)

json_dumps(x) ==
    CASE x.t = "null" -> "null"
      [] x.t = "bool" -> IF x.v THEN "true" ELSE "false"
      [] x.t = "num" -> ToString(x.v)
      [] x.t = "str" -> "\"" \o x.v \o "\""
      [] x.t = "list" -> "[" \o DumpItems(x.v, 1) \o "]"
      [] x.t = "dict" -> "{" \o DumpPairs(x.v, 1) \o "}"

(***************************************************************************)
(* Program constants.                                                      *)
(***************************************************************************)
DATASET_ID == "F-A0021-001"
\* the fallback text of fetch_forecast's RuntimeError (ASCII stand-in)
DefaultFailureMessage == "CWA API response failed"

(***************************************************************************)
(* Exceptions: str(exc) is exc.msg.                                        *)
(***************************************************************************)
Exc(type, msg) == [type |-> type, msg |-> msg]
NoExc == Exc("none", "")

(***************************************************************************)
(* The upstream bodies the model draws from.                               *)
(***************************************************************************)
\* a forecast of one location with one Wx entry
LocationA ==
    JDict(<< <<"locationName", JStr("A")>>,
             <<"weatherElement", JList(<< JDict(<<
                 <<"elementName", JStr("Wx")>>,
                 <<"time", JList(<< JDict(<<
                     <<"startTime", JStr("2024-05-01 06:00:00")>>,
                     <<"endTime", JStr("2024-05-01 18:00:00")>>,
                     <<"parameter", JDict(<< <<"parameterName", JStr("sunny")>>,
                                             <<"parameterValue", JStr("1")>> >>)>> >>) >>)>> >>) >>)>> >>)

RecordsA == JDict(<< <<"datasetDescription", JStr("A")>>, <<"location", JList(<<LocationA>>)>> >>)
RecordsB == JDict(<< <<"datasetDescription", JStr("B")>>, <<"location", JList(<<>>)>> >>)

LiveA == JDict(<< <<"success", JStr("true")>>, <<"records", RecordsA>> >>)
LiveB == JDict(<< <<"success", JStr("true")>>, <<"records", RecordsB>> >>)
FailBool == JDict(<< <<"success", JBool(FALSE)>>, <<"message", JStr("denied")>> >>)
FailBoolNoMessage == JDict(<< <<"success", JBool(FALSE)>> >>)
FailStr == JDict(<< <<"success", JStr("false")>>, <<"message", JStr("denied")>> >>)
FailNull == JDict(<< <<"success", JNull>>, <<"records", RecordsA>> >>)
NoSuccessKey == JDict(<< <<"records", RecordsA>> >>)
ListBody == JList(<<>>)
HttpErrorBody == JDict(<< <<"message", JStr("unauthorized")>> >>)
SampleBody == JDict(<< <<"success", JStr("true")>>,
                       <<"records", JDict(<< <<"datasetDescription", JStr("sample")>> >>)>> >>)
OtherDatasetBody == JDict(<< <<"success", JStr("true")>>,
                             <<"records", JDict(<< <<"TideForecasts", JList(<<>>)>> >>)>> >>)

Bodies ==
    {LiveA, LiveB, FailBool, FailBoolNoMessage, FailStr, FailNull,
     NoSuccessKey, ListBody}

JsonUniverse == Bodies \cup {HttpErrorBody, SampleBody, OtherDatasetBody}

IsJson(text) == \E x \in JsonUniverse : json_dumps(x) = text

json_loads(text) == CHOOSE x \in JsonUniverse : json_dumps(x) = text

\* What requests.get can meet: no answer, an error status, a body that is
\* not JSON, or a JSON body.
Responses ==
    {[transport |-> "ConnectionError", status |-> 0, body |-> ""],
     [transport |-> "ok", status |-> 401, body |-> json_dumps(HttpErrorBody)],
     [transport |-> "ok", status |-> 200, body |-> "<html>"]}
    \cup {[transport |-> "ok", status |-> 200, body |-> json_dumps(b)] : b \in Bodies}

NoResponse == [transport |-> "none", status |-> 0, body |-> ""]

(***************************************************************************)
(* fetch_forecast: the payload, or the exception it raises.                *)
(***************************************************************************)
Returns(x) == [ok |-> TRUE, value |-> x, exc |-> NoExc]
Raises(e) == [ok |-> FALSE, value |-> None, exc |-> e]

fetch_forecast(resp) ==
    IF resp.transport # "ok"
    THEN Raises(Exc(resp.transport, "request failed: " \o resp.transport))
    ELSE IF resp.status >= 400 /\ resp.status < 600
    THEN Raises(Exc("HTTPError", ToString(resp.status) \o " Error"))
    ELSE IF ~IsJson(resp.body)
    THEN Raises(Exc("JSONDecodeError", "Expecting value"))
    ELSE LET data == json_loads(resp.body) IN
         IF ~IsDict(data)
         THEN Raises(Exc("AttributeError", "'list' object has no attribute 'get'"))
         ELSE IF ~Truthy(GetDefault(data, "success", JBool(FALSE)))
         THEN Raises(Exc("RuntimeError",
                         PyOr(Get(data, "message"), JStr(DefaultFailureMessage)).v))
         ELSE Returns(data)

(***************************************************************************)
(* The cache store.                                                        *)
(***************************************************************************)
Row(id, dataset, text, at) ==
    [id |-> id, dataset |-> dataset, payload |-> text, fetched_at |-> at]

\* mutant: the row is written under another dataset id
persist_payload_other_dataset(rws, sq, p, at) ==
    Append(rws, Row(sq + 1, "F-A0023-001", json_dumps(p), at))

\* INSERT INTO forecast_cache (dataset, payload, fetched_at) VALUES (?, ?, ?)
persist_payload(rws, sq, p, at) ==
    Append(rws, Row(sq + 1, DATASET_ID, json_dumps(p), at))

\* mutant: ORDER BY id ASC
SelectOldest(rws, dataset) ==
    LET own == {i \in 1..Len(rws) : rws[i].dataset = dataset} IN
    IF own = {} THEN <<>>
    ELSE <<rws[CHOOSE i \in own : \A j \in own : rws[j].id >= rws[i].id].payload>>

\* SELECT payload FROM forecast_cache WHERE dataset=? ORDER BY id DESC LIMIT 1
SelectLatest(rws, dataset) ==
    LET own == {i \in 1..Len(rws) : rws[i].dataset = dataset} IN
    IF own = {} THEN <<>>
    ELSE <<rws[CHOOSE i \in own : \A j \in own : rws[j].id <= rws[i].id].payload>>

\* mutant: no WHERE dataset=?
load_cached_payload_any_dataset(rws) ==
    IF rws = <<>> THEN None ELSE json_loads(rws[Len(rws)].payload)

load_cached_payload(rws) ==
    LET row == SelectLatest(rws, DATASET_ID) IN
    IF row = <<>> THEN None ELSE json_loads(row[1])

NoFile == "<no file>"

load_sample_payload(file) ==
    IF file # NoFile THEN json_loads(file) ELSE None

(***************************************************************************)
(* retrieve_payload, one action per step.                                  *)
(***************************************************************************)
NoResult == [payload |-> None, source |-> "none", notice |-> None]
Result(p, source, notice) == [payload |-> p, source |-> source, notice |-> notice]

Finished == pc \in {"returned", "raised"}

InitRetrieval ==
    /\ pc = "idle"
    /\ calls = 0
    /\ now = 0
    /\ \/ table = FALSE /\ rows = <<>>
       \/ table = TRUE /\ rows = <<>>
       \/ table = TRUE /\ rows = <<Row(1, "F-A0023-001", json_dumps(OtherDatasetBody), 0)>>
    /\ seq = Len(rows)
    /\ sampleFile \in {NoFile, json_dumps(SampleBody)}
    /\ response = NoResponse
    /\ payload = None
    /\ exc = NoExc
    /\ result = NoResult
    /\ raised = NoExc
    /\ rows0 = rows
    /\ lastLive = None

InitNormIdle ==
    /\ npc = "idle"
    /\ npayload = None
    /\ nresult = Returns(<<>>)
    /\ ntype = ""

InitIconIdle ==
    /\ ipc = "idle"
    /\ islot = None
    /\ iicon = ""

\* the credential load_forecast_data is called with
ApiKeys == {"key-A"}

NoEntry == [value |-> None, at |-> -1, cleared |-> FALSE]
NoDataset == None

InitCacheIdle ==
    /\ lpc = "idle"
    /\ lkey = ""
    /\ lcalls = 0
    /\ dcache = [k \in ApiKeys |-> NoEntry]
    /\ ldataset = NoDataset
    /\ waits = 0
    /\ hstored = [k \in ApiKeys |-> NoEntry]

Init == InitRetrieval /\ InitNormIdle /\ InitIconIdle /\ InitCacheIdle

\* the caller enters retrieve_payload
Call ==
    /\ pc \in {"idle", "returned", "raised"}
    /\ calls < MaxCalls
    /\ pc' = "ensure_database"
    /\ calls' = calls + 1
    /\ response' = NoResponse
    /\ payload' = None
    /\ exc' = NoExc
    /\ result' = NoResult
    /\ raised' = NoExc
    /\ rows0' = rows
    /\ UNCHANGED <<now, table, rows, seq, sampleFile, lastLive, normVars, iconVars, cacheVars>>

\* ensure_database(): CREATE TABLE IF NOT EXISTS forecast_cache
EnsureDatabase ==
    /\ pc = "ensure_database"
    /\ table' = TRUE
    /\ pc' = "fetch_forecast"
    /\ UNCHANGED <<calls, now, rows, seq, sampleFile, response, payload, exc,
                   result, raised, rows0, lastLive, normVars, iconVars, cacheVars>>

\* payload = fetch_forecast(api_key), or except Exception as exc
FetchForecast ==
    /\ pc = "fetch_forecast"
    /\ \E resp \in Responses :
         LET r == fetch_forecast(resp) IN
         /\ response' = resp
         /\ IF r.ok
            THEN /\ payload' = r.value
                 /\ lastLive' = r.value
                 /\ pc' = "persist_payload"
                 /\ exc' = exc
            ELSE /\ exc' = r.exc
                 /\ pc' = "load_cached_payload"
                 /\ UNCHANGED <<payload, lastLive>>
    /\ UNCHANGED <<calls, now, table, rows, seq, sampleFile, result, raised,
                   rows0, normVars, iconVars, cacheVars>>

\* persist_payload(payload)
PersistPayload ==
    /\ pc = "persist_payload"
    /\ rows' = persist_payload(rows, seq, payload, now)
    /\ seq' = seq + 1
    /\ pc' = "return_live"
    /\ UNCHANGED <<calls, now, table, sampleFile, response, payload, exc,
                   result, raised, rows0, lastLive, normVars, iconVars, cacheVars>>

\* return payload, "live", None
ReturnLive ==
    /\ pc = "return_live"
    /\ result' = Result(payload, "live", None)
    /\ pc' = "returned"
    /\ UNCHANGED <<calls, now, table, rows, seq, sampleFile, response, payload,
                   exc, raised, rows0, lastLive, normVars, iconVars, cacheVars>>

\* mutant: the payload read from the cache is persisted again
LoadCachedPayloadWritesBack ==
    /\ pc = "load_cached_payload"
    /\ LET cached == load_cached_payload(rows) IN
       IF ~IsNone(cached)
       THEN /\ result' = Result(cached, "cache", JStr(exc.msg))
            /\ rows' = persist_payload(rows, seq, cached, now)
            /\ seq' = seq + 1
            /\ pc' = "returned"
       ELSE /\ result' = result
            /\ pc' = "load_sample_payload"
            /\ UNCHANGED <<rows, seq>>
    /\ UNCHANGED <<calls, now, table, sampleFile, response, payload,
                   exc, raised, rows0, lastLive, normVars, iconVars, cacheVars>>

\* cached = load_cached_payload(); if cached is not None: return ...
LoadCachedPayload ==
    /\ pc = "load_cached_payload"
    /\ LET cached == load_cached_payload(rows) IN
       IF ~IsNone(cached)
       THEN /\ result' = Result(cached, "cache", JStr(exc.msg))
            /\ pc' = "returned"
       ELSE /\ result' = result
            /\ pc' = "load_sample_payload"
    /\ UNCHANGED <<calls, now, table, rows, seq, sampleFile, response, payload,
                   exc, raised, rows0, lastLive, normVars, iconVars, cacheVars>>

\* mutant: the failure is wrapped in a new error before it is raised
LoadSamplePayloadWrapsError ==
    /\ pc = "load_sample_payload"
    /\ LET sample == IF sampleFile # NoFile THEN json_loads(sampleFile) ELSE None IN
       IF ~IsNone(sample)
       THEN /\ result' = [payload |-> sample, source |-> "sample", notice |-> JStr(exc.msg)]
            /\ pc' = "returned"
            /\ raised' = raised
       ELSE /\ raised' = Exc("RuntimeError", "fetch failed: " \o exc.msg)
            /\ pc' = "raised"
            /\ result' = result
    /\ UNCHANGED <<calls, now, table, rows, seq, sampleFile, response, payload,
                   exc, rows0, lastLive, normVars, iconVars, cacheVars>>

\* sample = load_sample_payload(); if sample is not None: return ...; raise
LoadSamplePayload ==
    /\ pc = "load_sample_payload"
    /\ LET sample == load_sample_payload(sampleFile) IN
       IF ~IsNone(sample)
       THEN /\ result' = Result(sample, "sample", JStr(exc.msg))
            /\ pc' = "returned"
            /\ raised' = raised
       ELSE /\ raised' = exc
            /\ pc' = "raised"
            /\ result' = result
    /\ UNCHANGED <<calls, now, table, rows, seq, sampleFile, response, payload,
                   exc, rows0, lastLive, normVars, iconVars, cacheVars>>

\* time passes
Tick ==
    /\ now < MaxTime
    /\ now' = now + 1
    /\ UNCHANGED <<pc, calls, table, rows, seq, sampleFile, response, payload,
                   exc, result, raised, rows0, lastLive, normVars, iconVars, cacheVars>>

Next ==
    \/ Call
    \/ EnsureDatabase
    \/ FetchForecast
    \/ PersistPayload
    \/ ReturnLive
    \/ LoadCachedPayload
    \/ LoadSamplePayload
    \/ Tick

Spec == Init /\ [][Next]_vars

(***************************************************************************)
(* SpecIO: a storage step may raise instead (sqlite3.OperationalError for  *)
(* a locked or read-only data.db, an unreadable sample file).  None of     *)
(* the four calls is inside a handler of its own.                          *)
(***************************************************************************)
StorageRaises(at, e) ==
    /\ pc = at
    /\ raised' = e
    /\ pc' = "raised"
    /\ UNCHANGED <<calls, now, table, rows, seq, sampleFile, response, payload,
                   exc, result, rows0, lastLive, normVars, iconVars, cacheVars>>

EnsureDatabaseRaises ==
    StorageRaises("ensure_database", Exc("OperationalError", "unable to open database file"))

PersistPayloadRaises ==
    StorageRaises("persist_payload", Exc("OperationalError", "database is locked"))

LoadCachedPayloadRaises ==
    StorageRaises("load_cached_payload", Exc("OperationalError", "database is locked"))

LoadSamplePayloadRaises ==
    /\ sampleFile # NoFile
    /\ StorageRaises("load_sample_payload", Exc("OSError", "sample file cannot be read"))

NextIO ==
    \/ Next
    \/ EnsureDatabaseRaises
    \/ PersistPayloadRaises
    \/ LoadCachedPayloadRaises
    \/ LoadSamplePayloadRaises

SpecIO == Init /\ [][NextIO]_vars

(***************************************************************************)
(* Time/value parsers.                                                     *)
(***************************************************************************)
RECURSIVE GCD(_, _)
GCD(a, b) == IF b = 0 THEN a ELSE GCD(b, a % b)

Abs(n) == IF n < 0 THEN -n ELSE n

\* the float n/d, in lowest terms with a positive denominator
Float(n, d) ==
    LET g == GCD(Abs(n), Abs(d))
        sgn == IF d < 0 THEN -1 ELSE 1
    IN  [t |-> "float", v |-> <<sgn * (n \div g), sgn * (d \div g)>>]

FAdd(x, y) == Float(x.v[1] * y.v[2] + y.v[1] * x.v[2], x.v[2] * y.v[2])
FDiv(x, k) == Float(x.v[1], x.v[2] * k)
FLess(x, y) == x.v[1] * y.v[2] < y.v[1] * x.v[2]

RECURSIVE FSum(_)
\* sum(values)
FSum(values) ==
    IF values = <<>> THEN Float(0, 1) ELSE FAdd(values[1], FSum(Tail(values)))

\* min(values), max(values) of a non-empty list
FMin(values) ==
    values[CHOOSE i \in 1..Len(values) : \A j \in 1..Len(values) : ~FLess(values[j], values[i])]
FMax(values) ==
    values[CHOOSE i \in 1..Len(values) : \A j \in 1..Len(values) : ~FLess(values[i], values[j])]

\* the decimal integers float() reads in the model: every other text is a
\* ValueError
NumericRange == -50..100

\* str(x)
PyStr(x) ==
    CASE x.t = "str" -> x
      [] x.t = "null" -> JStr("None")
      [] x.t = "bool" -> JStr(IF x.v THEN "True" ELSE "False")
      [] x.t = "num" -> JStr(ToString(x.v))
      [] OTHER -> JStr(json_dumps(x))

to_float(value) ==
    CASE value.t = "null" -> None
      [] value.t = "num" -> Float(value.v, 1)
      [] value.t = "float" -> value
      [] value.t = "bool" -> Float(IF value.v THEN 1 ELSE 0, 1)
      [] value.t = "str" ->
            IF \E n \in NumericRange : ToString(n) = value.v
            THEN Float(CHOOSE n \in NumericRange : ToString(n) = value.v, 1)
            ELSE None
      [] OTHER -> None

\* "2024-05-0d hh:00:00"
TimeString(d, h) ==
    "2024-05-0" \o ToString(d) \o " " \o (IF h < 10 THEN "0" ELSE "") \o ToString(h) \o ":00:00"

Days == 1..9
Hours == {0, 6, 12, 18}

\* a datetime, as the hours since 2024-05-01 00:00
DateTime(hours) == [t |-> "datetime", v |-> hours]

\* parse_time of None or a str: the texts of the form above are read, every
\* other text matches no format
parse_time(value) ==
    IF ~Truthy(value) THEN None
    ELSE IF \E d \in Days, h \in Hours : TimeString(d, h) = value.v
    THEN LET dh == CHOOSE dh \in Days \X Hours : TimeString(dh[1], dh[2]) = value.v
         IN  DateTime(24 * (dh[1] - 1) + dh[2])
    ELSE None

(***************************************************************************)
(* The general-forecast adapter.                                           *)
(***************************************************************************)
\* d[k] = x
DictSet(d, k, x) ==
    IF HasKey(d, k)
    THEN JDict([i \in 1..Len(d.v) |-> IF d.v[i][1] = k THEN <<k, x>> ELSE d.v[i]])
    ELSE JDict(Append(d.v, <<k, x>>))

RECURSIVE DictFrom(_, _, _, _, _)
\* {e.get(keyName): e.get(valueName, default) for e in items if e.get(keyName)}
DictFrom(items, i, keyName, valueName, default) ==
    IF i = 0 THEN JDict(<<>>)
    ELSE LET rest == DictFrom(items, i - 1, keyName, valueName, default)
             key == Get(items[i], keyName)
         IN  IF Truthy(key)
             THEN DictSet(rest, key.v, GetDefault(items[i], valueName, default))
             ELSE rest

PreferredOrder == <<"Wx", "WeatherDescription", "MinT", "MaxT">>

get_reference_series(elements) ==
    LET hits == {i \in 1..Len(PreferredOrder) : Truthy(Get(elements, PreferredOrder[i]))}
    IN  IF hits # {}
        THEN Get(elements, PreferredOrder[CHOOSE i \in hits : \A j \in hits : i <= j])
        ELSE IF elements.v # <<>> THEN elements.v[1][2] ELSE JList(<<>>)

\* mutant: an index past the end of a series reads its last entry
get_element_entry_clamped(elements, index, candidates) ==
    LET hits == {c \in 1..Len(candidates) : Truthy(Get(elements, candidates[c]))}
        series == Get(elements, candidates[CHOOSE c \in hits : \A c2 \in hits : c <= c2]).v
    IN  IF hits = {} THEN None
        ELSE series[IF index <= Len(series) THEN index ELSE Len(series)]

\* index counts from 1 here, from 0 in the source
get_element_entry(elements, index, candidates) ==
    LET hits == {c \in 1..Len(candidates) :
                    /\ Truthy(Get(elements, candidates[c]))
                    /\ index <= Len(Get(elements, candidates[c]).v)}
    IN  IF hits = {} THEN None
        ELSE Get(elements, candidates[CHOOSE c \in hits : \A c2 \in hits : c <= c2]).v[index]

extract_value(block, prefer_value) ==
    IF ~Truthy(block) THEN None
    ELSE LET parameter == Get(block, "parameter")
             element_value == Get(block, "elementValue")
         IN  IF IsDict(parameter)
             THEN IF prefer_value = "parameterValue"
                  THEN PyOr(Get(parameter, "parameterValue"), Get(parameter, "parameterName"))
                  ELSE PyOr(Get(parameter, "parameterName"), Get(parameter, "parameterValue"))
             ELSE IF IsList(element_value) /\ Truthy(element_value)
             THEN PyOr(Get(element_value.v[1], "value"), Get(element_value.v[1], "measures"))
             ELSE Get(block, "value")

extract_text(block) ==
    LET value == extract_value(block, "parameterName")
    IN  IF Truthy(value) THEN PyStr(value) ELSE None

\* mutant: the sum is always halved
MeanOfTwo(temps, otherwise) ==
    IF temps # <<>> THEN FDiv(FSum(temps), 2) ELSE otherwise

\* sum(temps) / len(temps) if temps else otherwise
Mean(temps, otherwise) ==
    IF temps # <<>> THEN FDiv(FSum(temps), Len(temps)) ELSE otherwise

\* [x for x in values if x is not None]
NotNone(values) == SelectSeq(values, LAMBDA x : ~IsNone(x))

\* the slot build_timeline makes of reference_series[idx]
WeatherSlot(elements, reference_block, idx) ==
    LET weather_block ==
            IF Truthy(Get(reference_block, "parameter"))
            THEN reference_block
            ELSE get_element_entry(elements, idx, <<"Wx", "WeatherDescription">>)
        min_temp == to_float(extract_value(get_element_entry(elements, idx, <<"MinT">>), "parameterName"))
        max_temp == to_float(extract_value(get_element_entry(elements, idx, <<"MaxT">>), "parameterName"))
    IN  [startTime |-> parse_time(PyOr(Get(reference_block, "startTime"),
                                       Get(reference_block, "dataTime"))),
         endTime |-> parse_time(Get(reference_block, "endTime")),
         weather |-> extract_text(weather_block),
         weather_code |-> extract_value(weather_block, "parameterValue"),
         pop |-> to_float(extract_value(get_element_entry(elements, idx, <<"PoP", "PoP12h">>), "parameterName")),
         min_temp |-> min_temp,
         max_temp |-> max_temp,
         apparent_temp |-> to_float(extract_value(get_element_entry(elements, idx, <<"AT", "ApparentT">>), "parameterName")),
         comfort |-> extract_text(get_element_entry(elements, idx, <<"CI">>)),
         unit |-> "degC",
         avg_temp |-> Mean(NotNone(<<min_temp, max_temp>>), None)]

\* enumerate(reference_series) raises TypeError when the series is None
build_timeline_raises(elements) == ~IsList(get_reference_series(elements))

build_timeline(elements) ==
    LET reference_series == get_reference_series(elements).v
    IN  [idx \in 1..Len(reference_series) |->
            WeatherSlot(elements, reference_series[idx], idx)]

\* the placeholder name of a location without one (ASCII stand-in)
UnknownArea == "<unknown area>"

\* the element_map of parse_location
ElementMap(data) ==
    LET weatherElement == GetDefault(data, "weatherElement", JList(<<>>))
    IN  DictFrom(weatherElement.v, Len(weatherElement.v), "elementName", "time", JList(<<>>))

\* iterating data["weatherElement"] or data["parameter"] raises TypeError
\* when the value is None, and so does build_timeline
parse_location_raises(data) ==
    \/ ~IsList(GetDefault(data, "weatherElement", JList(<<>>)))
    \/ build_timeline_raises(ElementMap(data))
    \/ ~IsList(GetDefault(data, "parameter", JList(<<>>)))

parse_location(data) ==
    LET parameter == GetDefault(data, "parameter", JList(<<>>))
    IN  [name |-> GetDefault(data, "locationName", JStr(UnknownArea)),
         parameters |-> DictFrom(parameter.v, Len(parameter.v), "parameterName",
                                 "parameterValue", None),
         timeline |-> build_timeline(ElementMap(data)),
         category |-> "weather"]

(***************************************************************************)
(* sorted(locations, key=lambda item: item["name"])                        *)
(***************************************************************************)
\* the code points of the texts used as names
CodePoints(s) ==
    CASE s = "A" -> <<65>>
      [] s = "AB" -> <<65, 66>>
      [] s = "B" -> <<66>>
      [] s = "a" -> <<97>>
      [] s = UnknownArea -> <<26410, 30693, 22320, 21312>>

\* a < b on str: the first differing code point decides, a proper prefix is less
StrLess(a, b) ==
    LET x == CodePoints(a)
        y == CodePoints(b)
        common == {i \in 1..Len(x) : i <= Len(y)}
        diff == {i \in common : x[i] # y[i]}
    IN  IF diff = {} THEN Len(x) < Len(y)
        ELSE LET i == CHOOSE i \in diff : \A j \in diff : i <= j IN x[i] < y[i]

RECURSIVE InsertByName(_, _)
\* x goes after every item that is not greater: the sort is stable
InsertByName(sortedItems, x) ==
    IF sortedItems = <<>> THEN <<x>>
    ELSE IF StrLess(x.name.v, sortedItems[1].name.v)
    THEN <<x>> \o sortedItems
    ELSE <<sortedItems[1]>> \o InsertByName(Tail(sortedItems), x)

RECURSIVE SortedByName(_, _)
SortedByName(items, n) ==
    IF n = 0 THEN <<>> ELSE InsertByName(SortedByName(items, n - 1), items[n])

\* comparing two keys raises TypeError unless both are str
sorted_raises(items) ==
    Len(items) >= 2 /\ \E i \in 1..Len(items) : ~IsStr(items[i].name)

\* mutant: the order of the input is kept
sorted_by_name_unsorted(items) == items

sorted_by_name(items) == SortedByName(items, Len(items))

(***************************************************************************)
(* The tide adapter.                                                       *)
(***************************************************************************)
EmptyDict == JDict(<<>>)
EmptyList == JList(<<>>)

\* the resource extract_tide_forecasts reads under cwaopendata
TideResource(cwa) ==
    LET resources == PyOr(PyOr(Get(cwa, "Resources"), Get(cwa, "resources")), EmptyDict)
        resource == PyOr(Get(resources, "Resource"), Get(resources, "resource"))
    IN  IF IsList(resource) THEN resource.v[1] ELSE resource

\* resource[0] raises IndexError on an empty list
extract_tide_forecasts_raises(p) ==
    LET records == Get(p, "records")
        cwa == Get(p, "cwaopendata")
    IN  /\ ~(IsDict(records) /\ IsList(Get(records, "TideForecasts")))
        /\ IsDict(cwa)
        /\ LET resources == PyOr(PyOr(Get(cwa, "Resources"), Get(cwa, "resources")), EmptyDict)
               resource == PyOr(Get(resources, "Resource"), Get(resources, "resource"))
           IN  IsList(resource) /\ resource.v = <<>>

extract_tide_forecasts(p) ==
    LET records == Get(p, "records")
        cwa == Get(p, "cwaopendata")
    IN  IF IsDict(records) /\ IsList(Get(records, "TideForecasts"))
        THEN Get(records, "TideForecasts").v
        ELSE IF IsDict(cwa)
        THEN LET resource == PyOr(TideResource(cwa), EmptyDict)
                 data == PyOr(Get(resource, "Data"), Get(resource, "data"))
                 forecasts == IF IsDict(data) THEN Get(data, "TideForecasts") ELSE None
             IN  IF IsList(forecasts) THEN forecasts.v ELSE <<>>
        ELSE <<>>

convert_height_to_meters(value) ==
    IF IsNone(value) THEN None ELSE FDiv(value, 100)

\* the tide ranges (ASCII stand-ins of the three characters)
TideLarge == "<da>"
TideMedium == "<zhong>"
TideSmall == "<xiao>"
TideSuffix == "<chao>"

\* str.strip()
Strip(s) == IF s = " " \o TideLarge \o " " THEN TideLarge ELSE s

tide_range_to_probability(tide_range) ==
    IF IsNone(tide_range) THEN None
    ELSE CASE Strip(tide_range.v) = TideLarge -> JNum(90)
           [] Strip(tide_range.v) = TideMedium -> JNum(60)
           [] Strip(tide_range.v) = TideSmall -> JNum(30)
           [] OTHER -> None

\* timestamp.strftime("%H:%M")
HourMinute(timestamp) ==
    LET h == timestamp.v % 24 IN (IF h < 10 THEN "0" ELSE "") \o ToString(h) \o ":00"

RECURSIVE JoinTide(_, _)
JoinTide(descriptions, i) ==
    IF i > Len(descriptions) THEN ""
    ELSE (IF i > 1 THEN "<,>" ELSE "") \o descriptions[i] \o JoinTide(descriptions, i + 1)

MaxDescribed == 3

describe_daily_tide(events) ==
    LET first == SubSeq(events, 1, IF Len(events) < MaxDescribed THEN Len(events) ELSE MaxDescribed)
        told == SelectSeq(first, LAMBDA entry :
                    /\ Truthy(parse_time(Get(entry, "DateTime")))
                    /\ Truthy(Get(entry, "Tide")))
        descriptions == [i \in 1..Len(told) |->
                            HourMinute(parse_time(Get(told[i], "DateTime")))
                            \o PyStr(Get(told[i], "Tide")).v]
    IN  IF descriptions # <<>> THEN JStr(JoinTide(descriptions, 1)) ELSE JStr("-")

\* the slot build_tide_timeline makes of one day
TideSlot(daily) ==
    LET times == PyOr(Get(daily, "Time"), EmptyList).v
        heights == NotNone([i \in 1..Len(times) |->
                       to_float(Get(PyOr(Get(times[i], "TideHeights"), EmptyDict), "AboveTWVD"))])
        min_height == IF heights # <<>> THEN convert_height_to_meters(FMin(heights)) ELSE None
        max_height == IF heights # <<>> THEN convert_height_to_meters(FMax(heights)) ELSE None
        avg_height == IF heights # <<>>
                      THEN convert_height_to_meters(FDiv(FSum(heights), Len(heights)))
                      ELSE None
    IN  [startTime |-> parse_time(Get(times[1], "DateTime")),
         endTime |-> parse_time(Get(times[Len(times)], "DateTime")),
         weather |-> JStr(PyStr(GetDefault(daily, "TideRange", JStr(""))).v \o TideSuffix),
         weather_code |-> None,
         pop |-> tide_range_to_probability(Get(daily, "TideRange")),
         min_temp |-> min_height,
         max_temp |-> max_height,
         apparent_temp |-> avg_height,
         comfort |-> describe_daily_tide(times),
         unit |-> "m",
         avg_temp |-> Mean(NotNone(<<min_height, max_height>>), avg_height)]

MaxTideDays == 3

build_tide_timeline(daily_periods) ==
    LET first == SubSeq(daily_periods, 1,
                        IF Len(daily_periods) < MaxTideDays THEN Len(daily_periods) ELSE MaxTideDays)
        withTimes == SelectSeq(first, LAMBDA daily : Truthy(PyOr(Get(daily, "Time"), EmptyList)))
    IN  [i \in 1..Len(withTimes) |-> TideSlot(withTimes[i])]

parse_tide_location(forecast) ==
    LET location == PyOr(Get(forecast, "Location"), EmptyDict)
        daily_periods == PyOr(Get(PyOr(Get(location, "TimePeriods"), EmptyDict), "Daily"), EmptyList)
    IN  [name |-> GetDefault(location, "LocationName", JStr(UnknownArea)),
         parameters |-> JDict(<< <<"LocationId", Get(location, "LocationId")>>,
                                 <<"Latitude", Get(location, "Latitude")>>,
                                 <<"Longitude", Get(location, "Longitude")>> >>),
         timeline |-> build_tide_timeline(daily_periods.v),
         category |-> "tide"]

(***************************************************************************)
(* normalize_locations: the list it returns, or the exception it raises.   *)
(***************************************************************************)
\* mutant: a location with an empty timeline is kept
KeepAll(parsed) == parsed

\* if location["timeline"]: keep it
Retained(parsed) == SelectSeq(parsed, LAMBDA location : location.timeline # <<>>)

TypeError == Exc("TypeError", "'NoneType' object is not iterable")
AttributeError == Exc("AttributeError", "'NoneType' object has no attribute 'get'")
CompareError == Exc("TypeError", "'<' not supported between instances of 'NoneType' and 'str'")
IndexError == Exc("IndexError", "list index out of range")

\* mutant: the tide adapter runs whatever the general adapter retained
normalize_locations_both(p) ==
    LET records == IF IsDict(p) THEN GetDefault(p, "records", EmptyDict) ELSE EmptyDict IN
    IF ~IsDict(records) THEN Raises(AttributeError)
    ELSE LET raw_locations == GetDefault(records, "location", EmptyList) IN
    IF ~IsList(raw_locations) THEN Raises(TypeError)
    ELSE IF \E i \in 1..Len(raw_locations.v) : parse_location_raises(raw_locations.v[i])
    THEN Raises(TypeError)
    ELSE IF extract_tide_forecasts_raises(p) THEN Raises(IndexError)
    ELSE LET normalized == Retained([i \in 1..Len(raw_locations.v) |->
                                        parse_location(raw_locations.v[i])])
             tide_forecasts == extract_tide_forecasts(p)
             tide_locations == Retained([i \in 1..Len(tide_forecasts) |->
                                            parse_tide_location(tide_forecasts[i])]) IN
    IF sorted_raises(normalized \o tide_locations) THEN Raises(CompareError)
    ELSE Returns(sorted_by_name(normalized \o tide_locations))

normalize_locations(p) ==
    LET records == IF IsDict(p) THEN GetDefault(p, "records", EmptyDict) ELSE EmptyDict IN
    IF ~IsDict(records) THEN Raises(AttributeError)
    ELSE LET raw_locations == GetDefault(records, "location", EmptyList) IN
    IF ~IsList(raw_locations) THEN Raises(TypeError)
    ELSE IF \E i \in 1..Len(raw_locations.v) : parse_location_raises(raw_locations.v[i])
    THEN Raises(TypeError)
    ELSE LET normalized == Retained([i \in 1..Len(raw_locations.v) |->
                                        parse_location(raw_locations.v[i])]) IN
    IF normalized # <<>>
    THEN IF sorted_raises(normalized) THEN Raises(CompareError)
         ELSE Returns(sorted_by_name(normalized))
    ELSE IF extract_tide_forecasts_raises(p) THEN Raises(IndexError)
    ELSE LET tide_forecasts == extract_tide_forecasts(p)
             tide_locations == Retained([i \in 1..Len(tide_forecasts) |->
                                            parse_tide_location(tide_forecasts[i])]) IN
    IF sorted_raises(tide_locations) THEN Raises(CompareError)
    ELSE Returns(sorted_by_name(tide_locations))

(***************************************************************************)
(* The payloads normalize_locations is applied to: objects in which every  *)
(* optional key is absent, null or a value of the type the adapters read.  *)
(***************************************************************************)
\* marks a key left out of an object; not a value
Absent == [t |-> "absent", v |-> 0]

\* the object of the pairs whose value is not Absent
Obj(pairs) == JDict(SelectSeq(pairs, LAMBDA kv : kv[2] # Absent))

WxBlock(i) ==
    Obj(<< <<"startTime", JStr(TimeString(i, 6))>>,
           <<"endTime", JStr(TimeString(i, 18))>>,
           <<"parameter", Obj(<< <<"parameterName", JStr("sunny")>>,
                                 <<"parameterValue", JStr("1")>> >>)>> >>)

\* MinT 18, 19, 20, ...; MaxT 24, "n/a", 26, ...; PoP 10, 20, ...
ElementText(key, i) ==
    CASE key = "MinT" -> ToString(17 + i)
      [] key = "MaxT" -> IF i = 2 THEN "n/a" ELSE ToString(23 + i)
      [] OTHER -> ToString(10 * i)

ValueBlock(key, i) ==
    Obj(<< <<"startTime", JStr(TimeString(i, 6))>>,
           <<"endTime", JStr(TimeString(i, 18))>>,
           <<"parameter", Obj(<< <<"parameterName", JStr(ElementText(key, i))>>,
                                 <<"parameterUnit", JStr("C")>> >>)>> >>)

Block(key, i) == IF key = "Wx" THEN WxBlock(i) ELSE ValueBlock(key, i)

\* how an element comes: left out, without "time", with "time": null, or
\* with a series of n entries
Listed(n) == [kind |-> "list", n |-> n]
Omitted == [kind |-> "omitted", n |-> 0]
SeriesOptions ==
    {Omitted, [kind |-> "no time", n |-> 0], [kind |-> "null", n |-> 0]}
    \cup {Listed(n) : n \in 0..MaxSeriesLen}

Element(key, opt) ==
    IF opt.kind = "omitted" THEN <<>>
    ELSE << Obj(<< <<"elementName", JStr(key)>>,
                   <<"time", CASE opt.kind = "no time" -> Absent
                               [] opt.kind = "null" -> JNull
                               [] OTHER -> JList([i \in 1..opt.n |-> Block(key, i)])>> >>) >>

Elements(wx, minT, maxT, pop) ==
    JList(Element("Wx", wx) \o Element("MinT", minT) \o Element("MaxT", maxT)
          \o Element("PoP", pop))

WeatherLocation(name, weatherElement, parameter) ==
    Obj(<< <<"locationName", name>>, <<"weatherElement", weatherElement>>,
           <<"parameter", parameter>> >>)

NameOptions == {Absent, JNull, JStr("A"), JStr("AB"), JStr("B"), JStr("a")}

LocationParameter ==
    JList(<< Obj(<< <<"parameterName", JStr("lat")>>, <<"parameterValue", JStr("25")>> >>) >>)

\* one location in every combination of its four element series, and with
\* weatherElement or parameter absent or null
RichWeatherLocations ==
    {WeatherLocation(JStr("A"), Elements(wx, minT, maxT, pop), Absent) :
        wx \in SeriesOptions, minT \in SeriesOptions, maxT \in SeriesOptions,
        pop \in SeriesOptions}
    \cup {WeatherLocation(JStr("A"), we, pa) :
            we \in {Absent, JNull, Elements(Listed(1), Omitted, Omitted, Omitted)},
            pa \in {Absent, JNull, LocationParameter}}

\* locations of every name, with a timeline of MaxSeriesLen slots or with
\* an empty weatherElement list
SimpleWeatherLocations ==
    {WeatherLocation(name, we, Absent) :
        name \in NameOptions,
        we \in {EmptyList, Elements(Listed(MaxSeriesLen), Listed(1), Omitted, Omitted)}}

\* the lists of at most n items of S
ListsOf(S, n) == UNION {[1..k -> S] : k \in 0..n}

WeatherPayload(locations) ==
    Obj(<< <<"success", JStr("true")>>, <<"records", Obj(<< <<"location", locations>> >>)>> >>)

\* the j-th tide of day d, at hour 6 (j - 1), 30 j - 50 cm above the datum
TideEntry(d, j, heights) ==
    Obj(<< <<"DateTime", JStr(TimeString(d, 6 * (j - 1)))>>,
           <<"Tide", JStr(IF j % 2 = 1 THEN "<high>" ELSE "<low>")>>,
           <<"TideHeights",
             CASE heights = "number" -> Obj(<< <<"AboveTWVD", JNum(30 * j - 50)>> >>)
               [] heights = "text" -> Obj(<< <<"AboveTWVD", JStr(ToString(30 * j - 50))>> >>)
               [] heights = "first only" ->
                     Obj(<< <<"AboveTWVD", IF j = 1 THEN JNum(30 * j - 50) ELSE JNull>> >>)
               [] heights = "null" -> JNull
               [] OTHER -> Absent>> >>)

HeightOptions == {"number", "text", "first only", "null", "absent"}
RangeOptions ==
    {Absent, JNull, JStr(TideLarge), JStr(TideMedium), JStr(TideSmall),
     JStr(" " \o TideLarge \o " "), JStr("?")}
TimeOptions == {Absent, JNull} \cup {JList([j \in 1..n |-> j]) : n \in 0..MaxTideTimes}

Daily(d, range, time, heights) ==
    Obj(<< <<"Date", JStr("2024-05-0" \o ToString(d))>>,
           <<"TideRange", range>>,
           <<"Time", IF IsList(time)
                     THEN JList([j \in 1..Len(time.v) |-> TideEntry(d, j, heights)])
                     ELSE time>> >>)

TideForecast(name, daily) ==
    Obj(<< <<"Location", Obj(<< <<"LocationName", name>>,
                                <<"TimePeriods", Obj(<< <<"Daily", daily>> >>)>> >>)>> >>)

FullDay(d) == Daily(d, JStr(TideLarge), JList(<<1, 2>>), "number")

\* one forecast of one day in every combination, of two days, and with
\* each level of the path to the days absent or null
RichTideForecasts ==
    {TideForecast(JStr("A"), JList(<<Daily(1, range, time, heights)>>)) :
        range \in RangeOptions, time \in TimeOptions, heights \in HeightOptions}
    \cup {TideForecast(JStr("A"), JList(<<Daily(1, JStr(TideSmall), time, "number"), FullDay(2)>>)) :
            time \in TimeOptions}
    \cup {TideForecast(JStr("A"), daily) : daily \in {Absent, JNull, EmptyList}}
    \cup {Obj(<< <<"Location", location>> >>) :
            location \in {Absent, JNull,
                          Obj(<< <<"LocationName", JStr("A")>>, <<"TimePeriods", JNull>> >>),
                          Obj(<< <<"LocationName", JStr("A")>> >>)}}

SimpleTideForecasts ==
    {TideForecast(name, daily) :
        name \in NameOptions, daily \in {EmptyList, JList(<<FullDay(1)>>)}}

TidePayload(forecasts) ==
    Obj(<< <<"success", JStr("true")>>,
           <<"records", Obj(<< <<"TideForecasts", forecasts>> >>)>> >>)

\* the tide forecasts under cwaopendata, the resource alone or in a list
OpenDataPayload(resource) ==
    Obj(<< <<"cwaopendata", Obj(<< <<"Resources", Obj(<< <<"Resource", resource>> >>)>> >>)>> >>)

TideData == Obj(<< <<"Data", Obj(<< <<"TideForecasts",
                JList(<<TideForecast(JStr("B"), JList(<<FullDay(1)>>)),
                        TideForecast(JStr("A"), JList(<<FullDay(1)>>))>>)>> >>)>> >>)

\* the envelope with each level absent, null or empty
EnvelopePayloads ==
    {Obj(<< <<"success", JStr("true")>>, <<"records", records>> >>) :
        records \in {Absent, JNull, EmptyDict,
                     Obj(<< <<"location", JNull>> >>),
                     Obj(<< <<"TideForecasts", JNull>> >>),
                     Obj(<< <<"location", JNull>>, <<"TideForecasts", EmptyList>> >>)}}
    \cup {OpenDataPayload(resource) :
            resource \in {Absent, JNull, EmptyList, TideData, JList(<<TideData>>),
                          Obj(<< <<"Data", JNull>> >>)}}
    \cup {Obj(<< <<"cwaopendata", cwa>> >>) :
            cwa \in {JNull, EmptyDict, Obj(<< <<"Resources", JNull>> >>),
                     Obj(<< <<"resources", Obj(<< <<"resource", TideData>> >>)>> >>)}}

\* the days of a series of MaxSeriesLen entries, in any order and with
\* repetitions
DayOrders == [1..MaxSeriesLen -> 1..MaxSeriesLen]

\* a location whose Wx series lists the days in the given order
DatedWeatherLocation(days) ==
    WeatherLocation(JStr("A"),
        JList(<< Obj(<< <<"elementName", JStr("Wx")>>,
                        <<"time", JList([i \in 1..Len(days) |-> WxBlock(days[i])])>> >>) >>),
        Absent)

\* a tide forecast whose Daily list has the days in the given order
DatedTideForecast(days) ==
    TideForecast(JStr("A"), JList([i \in 1..Len(days) |-> FullDay(days[i])]))

\* the places extract_value looks at, each absent, empty or holding values
ParameterOptions ==
    {Absent, JNull, EmptyDict,
     Obj(<< <<"parameterName", JStr("cloudy")>> >>),
     Obj(<< <<"parameterValue", JStr("4")>> >>),
     Obj(<< <<"parameterName", JStr("cloudy")>>, <<"parameterValue", JStr("4")>> >>),
     Obj(<< <<"parameterUnit", JStr("C")>> >>)}
ElementValueOptions ==
    {Absent, JNull, EmptyList,
     JList(<< Obj(<< <<"value", JStr("rainy")>> >>) >>),
     JList(<< Obj(<< <<"measures", JStr("text")>> >>) >>),
     JList(<< Obj(<< <<"value", JStr("rainy")>>, <<"measures", JStr("text")>> >>),
              Obj(<< <<"value", JStr("8")>> >>) >>),
     JList(<< EmptyDict, Obj(<< <<"value", JStr("8")>> >>) >>)}
RawValueOptions == {Absent, JNull, JStr("windy")}

\* a location whose Wx series has one entry with the places as given
PlacedWeatherLocation(parameter, elementValue, value) ==
    WeatherLocation(JStr("A"),
        JList(<< Obj(<< <<"elementName", JStr("Wx")>>,
                        <<"time", JList(<< Obj(<< <<"startTime", JStr(TimeString(1, 6))>>,
                                                  <<"parameter", parameter>>,
                                                  <<"elementValue", elementValue>>,
                                                  <<"value", value>> >>) >>)>> >>) >>),
        Absent)

\* a location with a full Wx series and AT and CI series of every length
AlignedWeatherLocations ==
    {WeatherLocation(JStr("A"),
                     JList(Element("Wx", Listed(MaxSeriesLen)) \o Element("AT", at)
                           \o Element("CI", ci)),
                     Absent) :
        at \in {Omitted} \cup {Listed(n) : n \in 0..MaxSeriesLen},
        ci \in {Omitted} \cup {Listed(n) : n \in 0..MaxSeriesLen}}

\* payloads with general-forecast locations and tide forecasts side by side
BothPayloads ==
    {Obj(<< <<"success", JStr("true")>>,
            <<"records", Obj(<< <<"location", JList(locations)>>,
                                <<"TideForecasts", JList(forecasts)>> >>)>> >>) :
        locations \in ListsOf({WeatherLocation(JStr("B"), we, Absent) :
                                  we \in {EmptyList, Elements(Listed(1), Omitted, Omitted, Omitted)}}, 1),
        forecasts \in ListsOf({TideForecast(JStr("A"), daily) :
                                  daily \in {EmptyList, JList(<<FullDay(1)>>)}}, 1)}

NormPayloads ==
    {WeatherPayload(JList(<<location>>)) : location \in RichWeatherLocations}
    \cup BothPayloads
    \cup {WeatherPayload(JList(<<location>>)) : location \in AlignedWeatherLocations}
    \cup {WeatherPayload(JList(<<PlacedWeatherLocation(parameter, elementValue, value)>>)) :
            parameter \in ParameterOptions, elementValue \in ElementValueOptions,
            value \in RawValueOptions}
    \cup {WeatherPayload(JList(<<DatedWeatherLocation(days)>>)) : days \in DayOrders}
    \cup {TidePayload(JList(<<DatedTideForecast(days)>>)) : days \in DayOrders}
    \cup {WeatherPayload(JList(locations)) :
            locations \in ListsOf(SimpleWeatherLocations, MaxLocations)}
    \cup {TidePayload(JList(<<forecast>>)) : forecast \in RichTideForecasts}
    \cup {TidePayload(JList(forecasts)) :
            forecasts \in ListsOf(SimpleTideForecasts, MaxLocations)}
    \cup EnvelopePayloads

(***************************************************************************)
(* What load_forecast_data derives from the locations.                     *)
(***************************************************************************)
\* the startTime of the first slot of each location that has one
FirstStarts(locations) ==
    {locations[k].timeline[1].startTime.v : k \in
        {k \in 1..Len(locations) :
            /\ locations[k].timeline # <<>>
            /\ ~IsNone(locations[k].timeline[1].startTime)}}

infer_issue_time(locations) ==
    LET times == FirstStarts(locations)
    IN  IF times # {} THEN DateTime(CHOOSE t \in times : \A u \in times : t <= u) ELSE None

determine_dataset_type(locations) ==
    CASE locations = <<>> -> "unknown"
      [] \A k \in 1..Len(locations) : locations[k].category = "tide" -> "tide"
      [] \A k \in 1..Len(locations) : locations[k].category = "weather" -> "weather"
      [] OTHER -> "mixed"

(***************************************************************************)
(* SpecNorm: normalize_locations applied to one payload of the family.     *)
(***************************************************************************)
\* no retrieve_payload call is under way and the store is empty
InitRetrievalEmpty ==
    /\ pc = "idle"
    /\ calls = 0
    /\ now = 0
    /\ table = FALSE
    /\ rows = <<>>
    /\ seq = 0
    /\ sampleFile = NoFile
    /\ response = NoResponse
    /\ payload = None
    /\ exc = NoExc
    /\ result = NoResult
    /\ raised = NoExc
    /\ rows0 = <<>>
    /\ lastLive = None

InitNorm ==
    /\ InitRetrievalEmpty
    /\ npc = "start"
    /\ npayload \in NormPayloads
    /\ nresult = Returns(<<>>)
    /\ ntype = ""
    /\ InitIconIdle
    /\ InitCacheIdle

NormalizeLocations ==
    /\ npc = "start"
    /\ nresult' = normalize_locations(npayload)
    /\ npc' = "done"
    /\ UNCHANGED <<npayload, ntype, retrievalVars, iconVars, cacheVars>>

\* dataset_type = determine_dataset_type(locations)
DetermineDatasetType ==
    /\ npc = "done"
    /\ nresult.ok
    /\ ntype' = determine_dataset_type(nresult.value)
    /\ npc' = "typed"
    /\ UNCHANGED <<npayload, nresult, retrievalVars, iconVars, cacheVars>>

NextNorm == NormalizeLocations \/ DetermineDatasetType

SpecNorm == InitNorm /\ [][NextNorm]_vars

(***************************************************************************)
(* resolve_icon.  The characters it looks for and the icons it returns are *)
(* written as ASCII stand-ins.                                             *)
(***************************************************************************)
IconSun == "<sun>"
IconCloud == "<cloud>"
IconRain == "<cloud with rain>"
IconThunder == "<cloud with lightning and rain>"
IconSnow == "<snowflake>"
IconWave == "<water wave>"
IconThermometer == "<thermometer>"

WEATHER_ICON_MAP ==
    [k \in {"1", "01", "2", "02", "3", "03", "4", "04", "5", "05", "6", "06",
            "7", "07", "8", "08", "9", "09", "10", "11", "12"} |->
        CASE k \in {"1", "01"} -> IconSun
          [] k \in {"2", "02"} -> "<sun behind small cloud>"
          [] k \in {"3", "03"} -> "<sun behind cloud>"
          [] k \in {"4", "04"} -> "<sun behind large cloud>"
          [] k \in {"5", "05"} -> IconCloud
          [] k \in {"6", "06"} -> IconRain
          [] k \in {"7", "07"} -> "<sun behind rain cloud>"
          [] k \in {"8", "08"} -> IconThunder
          [] k \in {"9", "09"} -> "<fog>"
          [] k = "10" -> IconSnow
          [] k = "11" -> "<wind face>"
          [] k = "12" -> "<cloud with snow>"]

Tide == "<chao>"
Thunder == "<lei>"
Rain == "<yu>"
Sunny == "<qing>"
Cloud == "<yun>"
Overcast == "<yin>"
Snow == "<xue>"

\* mutant: the leading characters are kept
lstrip_keeps(s, ch) == s

\* s.lstrip(ch)
RECURSIVE lstrip(_, _)
lstrip(s, ch) ==
    IF Len(s) > 0 /\ SubSeq(s, 1, 1) = ch
    THEN lstrip(SubSeq(s, 2, Len(s)), ch)
    ELSE s

\* s.rstrip(ch)
RECURSIVE rstrip(_, _)
rstrip(s, ch) ==
    IF Len(s) > 0 /\ SubSeq(s, Len(s), Len(s)) = ch
    THEN rstrip(SubSeq(s, 1, Len(s) - 1), ch)
    ELSE s

\* s.strip(), the whitespace of the model being the space
strip(s) == rstrip(lstrip(s, " "), " ")

\* sub in text
Contains(text, sub) ==
    \E i \in 1..(Len(text) - Len(sub) + 1) : SubSeq(text, i, i + Len(sub) - 1) = sub

\* the chain of tests on the weather text
resolve_text(text) ==
    CASE Contains(text, Tide) -> IconWave
      [] Contains(text, Thunder) -> IconThunder
      [] Contains(text, Rain) -> IconRain
      [] Contains(text, Sunny) -> IconSun
      [] Contains(text, Cloud) \/ Contains(text, Overcast) -> IconCloud
      [] Contains(text, Snow) -> IconSnow
      [] OTHER -> IconThermometer

resolve_icon(slot) ==
    LET code == slot.weather_code
        normalized == lstrip(code.v, "0")
        text == strip(PyOr(slot.weather, JStr("")).v)
    IN  IF Truthy(code) /\ normalized \in DOMAIN WEATHER_ICON_MAP
        THEN WEATHER_ICON_MAP[normalized]
        ELSE IF Truthy(code) /\ code.v \in DOMAIN WEATHER_ICON_MAP
        THEN WEATHER_ICON_MAP[code.v]
        ELSE resolve_text(text)

(***************************************************************************)
(* The slots resolve_icon is applied to: the code is None or a text of     *)
(* digits, the weather is None or a text of the characters above.          *)
(***************************************************************************)
RECURSIVE Texts(_, _)
Texts(alphabet, n) ==
    IF n = 0 THEN {""}
    ELSE LET shorter == Texts(alphabet, n - 1)
         IN  shorter \cup {t \o c : t \in shorter, c \in alphabet}

Codes == {None} \cup {JStr(c) : c \in Texts({"0", "1", "8"}, MaxCodeLen)}

WeatherTexts ==
    LET plain == Texts({Tide, Thunder, Rain, Sunny, Cloud, Snow, "<duo>"}, MaxTextLen)
    IN  {None} \cup {JStr(t) : t \in plain} \cup {JStr(" " \o t \o " ") : t \in plain}

IconSlots == [weather_code : Codes, weather : WeatherTexts]

InitIcon ==
    /\ InitRetrievalEmpty
    /\ InitNormIdle
    /\ ipc = "start"
    /\ islot \in IconSlots
    /\ iicon = ""
    /\ InitCacheIdle

ResolveIcon ==
    /\ ipc = "start"
    /\ iicon' = resolve_icon(islot)
    /\ ipc' = "done"
    /\ UNCHANGED <<islot, retrievalVars, normVars, cacheVars>>

NextIcon == ResolveIcon

SpecIcon == InitIcon /\ [][NextIcon]_vars

(***************************************************************************)
(* SpecCache: load_forecast_data behind st.cache_data(ttl=...), called and *)
(* cleared as main does.  An entry is stored when the call returns and     *)
(* expires CACHE_TTL_SECONDS later; an exception is not stored.  The clock *)
(* counts seconds.                                                         *)
(***************************************************************************)
CACHE_TTL_SECONDS == 60 * 15

Entry(value, at) == [value |-> value, at |-> at, cleared |-> FALSE]

\* mutant: the ttl is taken for milliseconds
FreshForMilliseconds(entry, t) ==
    entry # NoEntry /\ 1000 * t < 1000 * entry.at + CACHE_TTL_SECONDS

\* the entry can be served at time t
Fresh(entry, t) == entry # NoEntry /\ t < entry.at + CACHE_TTL_SECONDS

Dataset(locations, source, notice) ==
    [locations |-> locations,
     issue_time |-> infer_issue_time(locations),
     dataset_type |-> determine_dataset_type(locations),
     source |-> source,
     notice |-> notice]

LoadIdle == lpc \in {"idle", "returned", "raised"}

\* dataset = load_forecast_data(api_key): the lookup of the cached function
LoadForecastData(api_key) ==
    /\ LoadIdle
    /\ lkey' = api_key
    /\ lcalls' = calls
    /\ IF Fresh(dcache[api_key], now)
       THEN /\ ldataset' = dcache[api_key].value
            /\ lpc' = "returned"
       ELSE /\ ldataset' = NoDataset
            /\ lpc' = "retrieve_payload"
    /\ UNCHANGED <<dcache, waits, hstored, retrievalVars, normVars, iconVars>>

\* on a miss the function body runs: payload, source, notice = retrieve_payload(api_key)
RetrievePayload ==
    /\ lpc = "retrieve_payload"
    /\ calls = lcalls
    /\ calls < MaxLoads
    /\ Call

\* the rest of the body, and the store of the value returned
ReturnDataset ==
    /\ lpc = "retrieve_payload"
    /\ calls = lcalls + 1
    /\ pc = "returned"
    /\ LET locations == normalize_locations(result.payload) IN
       IF locations.ok
       THEN LET value == Dataset(locations.value, result.source, result.notice) IN
            /\ ldataset' = value
            /\ dcache' = [dcache EXCEPT ![lkey] = Entry(value, now)]
            /\ hstored' = [hstored EXCEPT ![lkey] = Entry(value, now)]
            /\ lpc' = "returned"
       ELSE /\ ldataset' = NoDataset
            /\ lpc' = "raised"
            /\ UNCHANGED <<dcache, hstored>>
    /\ UNCHANGED <<lkey, lcalls, waits, retrievalVars, normVars, iconVars>>

\* retrieve_payload raised: main reports the failure, nothing is stored
PropagateError ==
    /\ lpc = "retrieve_payload"
    /\ calls = lcalls + 1
    /\ pc = "raised"
    /\ ldataset' = NoDataset
    /\ lpc' = "raised"
    /\ UNCHANGED <<lkey, lcalls, dcache, waits, hstored, retrievalVars, normVars, iconVars>>

\* the refresh button: load_forecast_data.clear()
Refresh ==
    /\ LoadIdle
    /\ dcache' = [k \in ApiKeys |-> NoEntry]
    /\ hstored' = [k \in ApiKeys |->
                      IF hstored[k] = NoEntry THEN NoEntry
                      ELSE [hstored[k] EXCEPT !.cleared = TRUE]]
    /\ UNCHANGED <<lpc, lkey, lcalls, ldataset, waits, retrievalVars, normVars, iconVars>>

\* a second passes, or all of the freshness window but its last second
Wait ==
    /\ waits < MaxWaits
    /\ \E seconds \in {1, CACHE_TTL_SECONDS - 1} : now' = now + seconds
    /\ waits' = waits + 1
    /\ UNCHANGED <<pc, calls, table, rows, seq, sampleFile, response, payload,
                   exc, result, raised, rows0, lastLive, lpc, lkey, lcalls,
                   dcache, ldataset, hstored, normVars, iconVars>>

NextCache ==
    \/ \E api_key \in ApiKeys : LoadForecastData(api_key)
    \/ RetrievePayload
    \/ EnsureDatabase
    \/ FetchForecast
    \/ PersistPayload
    \/ ReturnLive
    \/ LoadCachedPayload
    \/ LoadSamplePayload
    \/ ReturnDataset
    \/ PropagateError
    \/ Refresh
    \/ Wait

\* the first render of a fresh deployment: no data.db and no sample file
InitCache ==
    /\ InitRetrievalEmpty
    /\ InitNormIdle
    /\ InitIconIdle
    /\ InitCacheIdle

SpecCache == InitCache /\ [][NextCache]_vars

(***************************************************************************)
(* Properties of the retrieval policy and the cache store.                 *)
(***************************************************************************)
\* positions of the rows of this dataset, in insertion order
OwnRows == {i \in 1..Len(rows) : rows[i].dataset = DATASET_ID}
MostRecentOwnRow == rows[CHOOSE i \in OwnRows : \A j \in OwnRows : j <= i]
FetchFailed == exc # NoExc

\* C1: when the fetch failed, the call returns the most recent cached payload
\* of the dataset tagged "cache" if the store holds a row of the dataset, else
\* the sample payload tagged "sample" if the sample file exists; the notice is
\* the message of the fetch failure.
C1_FallbackChain ==
    (Finished /\ FetchFailed) =>
        IF OwnRows # {}
        THEN /\ pc = "returned"
             /\ result.source = "cache"
             /\ json_dumps(result.payload) = MostRecentOwnRow.payload
             /\ result.notice = JStr(fetch_forecast(response).exc.msg)
        ELSE sampleFile # NoFile =>
             /\ pc = "returned"
             /\ result.source = "sample"
             /\ json_dumps(result.payload) = sampleFile
             /\ result.notice = JStr(fetch_forecast(response).exc.msg)

\* a failed fetch served from a cache of two different payloads, although the
\* sample file exists
C1_Witness ==
    /\ pc = "returned"
    /\ FetchFailed
    /\ result.source = "cache"
    /\ sampleFile # NoFile
    /\ Cardinality(OwnRows) >= 2
    /\ \E i \in OwnRows : rows[i].payload # MostRecentOwnRow.payload

\* C2: when the fetch failed, the store holds no row of the dataset and the
\* sample file does not exist, nothing is returned and the exception that
\* leaves retrieve_payload is the fetch failure, its message unchanged.
C2_OriginalErrorPropagates ==
    (Finished /\ FetchFailed /\ OwnRows = {} /\ sampleFile = NoFile) =>
        /\ pc = "raised"
        /\ result = NoResult
        /\ raised = fetch_forecast(response).exc

\* the fetch failure has propagated past a store that holds another
\* dataset's row only
C2_Witness ==
    /\ pc = "raised"
    /\ FetchFailed
    /\ rows # <<>>
    /\ OwnRows = {}
    /\ sampleFile = NoFile
    /\ raised.msg = "denied"

\* C3: retrieve_payload raises only when the fetch failed, no row of the
\* dataset is cached and no sample file exists; otherwise it returns a payload
\* tagged live, cache or sample, whatever the storage steps do.
C3_OnlyFatalPath ==
    Finished =>
        IF FetchFailed /\ OwnRows = {} /\ sampleFile = NoFile
        THEN pc = "raised"
        ELSE pc = "returned" /\ result.source \in {"live", "cache", "sample"}

\* C4: when the fetch succeeded, exactly one row (DATASET_ID, the serialized
\* payload, the time) has been appended by the time "live" is returned, the
\* payload returned is the one fetched, the notice is None, and the payload is
\* what the cache now reads as latest.
C4_LivePersistedBeforeReturn ==
    /\ (Finished /\ fetch_forecast(response).ok) =>
           pc = "returned" /\ result.source = "live"
    /\ (pc = "return_live" \/ (pc = "returned" /\ result.source = "live")) =>
           /\ Len(rows) = Len(rows0) + 1
           /\ SubSeq(rows, 1, Len(rows0)) = rows0
           /\ rows[Len(rows)].dataset = DATASET_ID
           /\ rows[Len(rows)].payload = json_dumps(fetch_forecast(response).value)
           /\ rows[Len(rows)].fetched_at \in 0..now
           /\ \A i \in 1..Len(rows0) : rows[i].id < rows[Len(rows)].id
           /\ OwnRows # {} /\ MostRecentOwnRow = rows[Len(rows)]
    /\ (pc = "returned" /\ result.source = "live") =>
           /\ result.payload = fetch_forecast(response).value
           /\ result.notice = None

\* a second live result, returned after its row was added to a store that
\* already held one
C4_Witness ==
    /\ pc = "returned"
    /\ result.source = "live"
    /\ Cardinality(OwnRows) >= 2
    /\ rows[Len(rows)].payload = json_dumps(result.payload)

\* C5: the store is append-only with strictly increasing ids, and
\* load_cached_payload reads the payload of the latest successful fetch, or
\* None if there has been none (at every point but the one between a fetch
\* and its insert, where the single-threaded program cannot read the cache).
C5_MostRecentWriteWins ==
    /\ [](/\ \A i, j \in 1..Len(rows) : i < j => rows[i].id < rows[j].id
          /\ pc # "persist_payload" => load_cached_payload(rows) = lastLive)
    /\ [][/\ Len(rows') >= Len(rows)
          /\ \A i \in 1..Len(rows) : rows'[i] = rows[i]]_vars

\* the cache is about to be read after two successful fetches of different
\* payloads
C5_Witness ==
    /\ pc = "load_cached_payload"
    /\ Cardinality(OwnRows) >= 2
    /\ \E i \in OwnRows : rows[i].payload # MostRecentOwnRow.payload
    /\ json_dumps(lastLive) = MostRecentOwnRow.payload

\* what the claim calls a failure: no answer, an error status, or a JSON
\* object whose success flag is missing or false in a form the upstream uses
ReportsFailure(resp) ==
    \/ resp.transport # "ok"
    \/ resp.status >= 400
    \/ /\ IsJson(resp.body)
       /\ IsDict(json_loads(resp.body))
       /\ \/ ~HasKey(json_loads(resp.body), "success")
          \/ Get(json_loads(resp.body), "success") \in {JBool(FALSE), JStr("false")}

\* C6: fetch_forecast raises on a transport or HTTP error, on a body whose
\* success flag is false, and on a body without the success key.
C6_FetchSignalsFailure ==
    (response # NoResponse /\ ReportsFailure(response)) => FetchFailed

\* C16: a call whose fetch failed leaves the rows as they were when it
\* started, whether it returns the cached payload, the sample or raises;
\* a row is added only by the persist step of a call whose fetch returned,
\* and it holds the payload fetched.
C16_FailurePathLeavesRows ==
    /\ [](/\ FetchFailed => rows = rows0
          /\ result.source \in {"cache", "sample"} => rows = rows0)
    /\ [][rows' # rows =>
            /\ pc = "persist_payload"
            /\ ~FetchFailed
            /\ Len(rows') = Len(rows) + 1
            /\ SubSeq(rows', 1, Len(rows)) = rows
            /\ rows'[Len(rows')].dataset = DATASET_ID
            /\ json_loads(rows'[Len(rows')].payload) = lastLive]_vars

\* the second call of two failed to fetch and returned the payload the first
\* had persisted; the store still holds that one row
C16_Witness ==
    /\ pc = "returned"
    /\ FetchFailed
    /\ result.source = "cache"
    /\ calls = 2
    /\ Len(rows) = 1
    /\ rows = rows0

(***************************************************************************)
(* Properties of normalize_locations.                                      *)
(***************************************************************************)
Normalized == npc = "done" /\ nresult.ok

\* the payload's general-forecast locations, and its tide forecasts
InputLocations ==
    IF HasKey(npayload, "records") /\ IsDict(Get(npayload, "records"))
       /\ IsList(Get(Get(npayload, "records"), "location"))
    THEN Get(Get(npayload, "records"), "location").v
    ELSE <<>>
InputForecasts ==
    IF HasKey(npayload, "records") /\ IsDict(Get(npayload, "records"))
       /\ IsList(Get(Get(npayload, "records"), "TideForecasts"))
    THEN Get(Get(npayload, "records"), "TideForecasts").v
    ELSE <<>>

InputName(raw) == GetDefault(raw, "locationName", JStr(UnknownArea))
ReferenceLen(raw) == Len(get_reference_series(ElementMap(raw)).v)

\* the input locations whose reference series has an entry
WithSlots == {i \in 1..Len(InputLocations) : ReferenceLen(InputLocations[i]) > 0}

\* C7: every location returned has a non-empty timeline; for a
\* general-forecast payload the locations returned are exactly the input
\* locations whose reference series is not empty, each with as many slots as
\* its reference series has entries.
C7_TimelineMatchesReference ==
    Normalized =>
        /\ \A k \in 1..Len(nresult.value) : nresult.value[k].timeline # <<>>
        /\ WithSlots # {} =>
              /\ Len(nresult.value) = Cardinality(WithSlots)
              /\ \A i \in WithSlots :
                    Cardinality({k \in 1..Len(nresult.value) :
                        /\ nresult.value[k].name = InputName(InputLocations[i])
                        /\ Len(nresult.value[k].timeline) = ReferenceLen(InputLocations[i])})
                    = Cardinality({j \in WithSlots :
                        /\ InputName(InputLocations[j]) = InputName(InputLocations[i])
                        /\ ReferenceLen(InputLocations[j]) = ReferenceLen(InputLocations[i])})

\* of two input locations, the one with an empty weatherElement list is
\* dropped and the other is returned with the two slots of its Wx series
C7_Witness ==
    /\ Normalized
    /\ Len(InputLocations) = 2
    /\ \E i \in 1..2 : Get(InputLocations[i], "weatherElement") = EmptyList
    /\ Len(nresult.value) = 1
    /\ nresult.value[1].category = "weather"
    /\ Len(nresult.value[1].timeline) = 2

AllSlots ==
    UNION {{nresult.value[k].timeline[i] : i \in 1..Len(nresult.value[k].timeline)} :
              k \in 1..Len(nresult.value)}

\* C8: in every slot avg_temp is the mean of the values present among
\* min_temp and max_temp: None when both are None, the one present when one
\* is, and (min + max) / 2 when both are.
C8_AvgIsMeanOfPresent ==
    Normalized =>
        \A slot \in AllSlots :
            LET lo == slot.min_temp
                hi == slot.max_temp
                avg == slot.avg_temp
            IN  CASE IsNone(lo) /\ IsNone(hi) -> IsNone(avg)
                  [] IsNone(lo) -> avg = hi
                  [] IsNone(hi) -> avg = lo
                  [] OTHER ->
                        /\ ~IsNone(avg)
                        /\ 2 * avg.v[1] * lo.v[2] * hi.v[2]
                           = avg.v[2] * (lo.v[1] * hi.v[2] + hi.v[1] * lo.v[2])

\* MinT 18 and MaxT 24 give 21.0, next to a slot with MinT alone
C8_Witness ==
    /\ Normalized
    /\ \E slot \in AllSlots :
          /\ slot.min_temp = Float(18, 1)
          /\ slot.max_temp = Float(24, 1)
          /\ slot.avg_temp = Float(21, 1)
    /\ \E slot \in AllSlots :
          /\ ~IsNone(slot.min_temp)
          /\ IsNone(slot.max_temp)
          /\ slot.avg_temp = slot.min_temp

Orders(n) == {f \in [1..n -> 1..n] : \A i, j \in 1..n : f[i] = f[j] => i = j}

Distinct(names) == \A i, j \in 1..Len(names) : names[i] = names[j] => i = j

\* the payload with the list under records[key] in the order f
Reordered(key, f) ==
    LET records == Get(npayload, "records")
        items == Get(records, key).v
    IN  DictSet(npayload, "records",
                DictSet(records, key, JList([i \in 1..Len(items) |-> items[f[i]]])))

\* C9: the locations returned are in ascending order of the code points of
\* their names, and a payload whose locations (or tide forecasts) have
\* distinct names gives the same list in whatever order it lists them.
C9_SortedByName ==
    Normalized =>
        /\ \A i, j \in 1..Len(nresult.value) :
              i < j => ~StrLess(nresult.value[j].name.v, nresult.value[i].name.v)
        /\ Distinct([i \in 1..Len(InputLocations) |-> InputName(InputLocations[i])]) =>
              \A f \in Orders(Len(InputLocations)) :
                  Len(InputLocations) > 0 =>
                      normalize_locations(Reordered("location", f)) = nresult
        /\ Distinct([i \in 1..Len(InputForecasts) |->
                        parse_tide_location(InputForecasts[i]).name]) =>
              \A f \in Orders(Len(InputForecasts)) :
                  Len(InputForecasts) > 0 =>
                      normalize_locations(Reordered("TideForecasts", f)) = nresult

\* "a" listed before "B" comes back after it
C9_Witness ==
    /\ Normalized
    /\ Len(InputLocations) = 2
    /\ InputName(InputLocations[1]) = JStr("a")
    /\ InputName(InputLocations[2]) = JStr("B")
    /\ Len(nresult.value) = 2
    /\ nresult.value[1].name = JStr("B")
    /\ nresult.value[2].name = JStr("a")

\* C10: normalize_locations returns a list for every payload whose optional
\* keys are absent or null.
C10_NeverRaises == npc = "done" => nresult.ok

\* C12: in every location returned, of two slots with a startTime the
\* earlier in the timeline starts strictly earlier.
C12_TimelineOrderedByStart ==
    Normalized =>
        \A k \in 1..Len(nresult.value) :
            LET timeline == nresult.value[k].timeline
            IN  \A i, j \in 1..Len(timeline) :
                    /\ i < j
                    /\ ~IsNone(timeline[i].startTime)
                    /\ ~IsNone(timeline[j].startTime)
                    => timeline[i].startTime.v < timeline[j].startTime.v

\* the payload has one location, whose one element is a Wx series
OnlyWx ==
    /\ Len(InputLocations) = 1
    /\ IsList(Get(InputLocations[1], "weatherElement"))
    /\ Len(Get(InputLocations[1], "weatherElement").v) = 1
    /\ Get(Get(InputLocations[1], "weatherElement").v[1], "elementName") = JStr("Wx")
    /\ IsList(Get(Get(InputLocations[1], "weatherElement").v[1], "time"))
WxSeries == Get(Get(InputLocations[1], "weatherElement").v[1], "time").v

\* the first of the values that is one, else None
RECURSIVE FirstValue(_)
FirstValue(values) ==
    IF values = <<>> THEN None
    ELSE IF Truthy(values[1]) THEN values[1] ELSE FirstValue(Tail(values))

\* the places of an entry in the order of the claim, first and second being
\* the keys of the parameter object in the order of the preference
Places(block, first, second) ==
    LET parameter == Get(block, "parameter")
        element_value == Get(block, "elementValue")
    IN  (IF IsDict(parameter) THEN <<Get(parameter, first), Get(parameter, second)>> ELSE <<>>)
        \o (IF IsList(element_value) /\ element_value.v # <<>>
            THEN <<Get(element_value.v[1], "value"), Get(element_value.v[1], "measures")>>
            ELSE <<>>)
        \o <<Get(block, "value")>>

\* C14: the weather code and the weather text of a slot are the first value
\* found in the parameter object (parameterValue first for the code,
\* parameterName first for the text), then in the first elementValue entry
\* (value, then measures), then in the raw value field of the entry.
C14_FirstHitWins ==
    Normalized /\ OnlyWx /\ nresult.value # <<>> =>
        \A idx \in 1..Len(WxSeries) :
            LET slot == nresult.value[1].timeline[idx] IN
            /\ slot.weather_code = FirstValue(Places(WxSeries[idx], "parameterValue", "parameterName"))
            /\ slot.weather = FirstValue(Places(WxSeries[idx], "parameterName", "parameterValue"))

\* the payload has one location with a list of elements, and it was returned
OneReturned ==
    /\ Normalized
    /\ Len(InputLocations) = 1
    /\ IsList(Get(InputLocations[1], "weatherElement"))
    /\ nresult.value # <<>>
    /\ nresult.value[1].category = "weather"

\* the series of the element of that name in the payload, <<>> without one
RawSeries(key) ==
    LET weatherElement == Get(InputLocations[1], "weatherElement").v
        named == {e \in 1..Len(weatherElement) :
                     Get(weatherElement[e], "elementName") = JStr(key)}
        time == Get(weatherElement[CHOOSE e \in named : \A e2 \in named : e2 <= e], "time")
    IN  IF named # {} /\ IsList(time) THEN time.v ELSE <<>>

\* the i-th entry of that series, None when the series is shorter
EntryAt(key, i) == IF i <= Len(RawSeries(key)) THEN RawSeries(key)[i] ELSE None

\* C15: the fields of the i-th slot come from the i-th entries of their
\* element series, and a field whose series has no i-th entry is None.
C15_ShortSeriesGiveNone ==
    OneReturned =>
        \A i \in 1..Len(nresult.value[1].timeline) :
            LET slot == nresult.value[1].timeline[i] IN
            /\ slot.pop = to_float(extract_value(EntryAt("PoP", i), "parameterName"))
            /\ slot.min_temp = to_float(extract_value(EntryAt("MinT", i), "parameterName"))
            /\ slot.max_temp = to_float(extract_value(EntryAt("MaxT", i), "parameterName"))
            /\ slot.apparent_temp = to_float(extract_value(EntryAt("AT", i), "parameterName"))
            /\ slot.comfort = extract_text(EntryAt("CI", i))

\* a second slot without apparent_temp and comfort next to a first with both
C15_Witness ==
    /\ OneReturned
    /\ Len(RawSeries("Wx")) = 2
    /\ Len(RawSeries("AT")) = 1
    /\ Len(RawSeries("CI")) = 1
    /\ Len(nresult.value[1].timeline) = 2
    /\ nresult.value[1].timeline[1].apparent_temp = Float(10, 1)
    /\ nresult.value[1].timeline[1].comfort = JStr("10")
    /\ IsNone(nresult.value[1].timeline[2].apparent_temp)
    /\ IsNone(nresult.value[1].timeline[2].comfort)

Categories == {nresult.value[k].category : k \in 1..Len(nresult.value)}

\* C17: the list returned holds locations of one category, tide locations
\* only when no general-forecast location of the payload has a slot, and
\* its dataset type is never "mixed" and is "unknown" exactly for the empty
\* list.
C17_OneCategory ==
    /\ Normalized =>
          /\ Categories \in {{}, {"weather"}, {"tide"}}
          /\ WithSlots # {} => Categories = {"weather"}
    /\ npc = "typed" =>
          /\ ntype \in {"unknown", "weather", "tide"}
          /\ ntype = "unknown" <=> nresult.value = <<>>
          /\ ntype # "unknown" => Categories = {ntype}

\* a payload with a location and a tide forecast, both with slots, gave the
\* location alone and the type "weather"
C17_Witness ==
    /\ npc = "typed"
    /\ WithSlots # {}
    /\ \E i \in 1..Len(InputForecasts) :
          parse_tide_location(InputForecasts[i]).timeline # <<>>
    /\ Len(nresult.value) = 1
    /\ nresult.value[1].category = "weather"
    /\ ntype = "weather"

(***************************************************************************)
(* Properties of the result cache in front of load_forecast_data.          *)
(***************************************************************************)
\* the load under way found nothing to serve and runs the function body
Missed == lpc = "retrieve_payload"
\* this step is a load answered from the cache
Hit ==
    /\ LoadIdle
    /\ LoadIdle'
    /\ <<lpc, lkey, lcalls, ldataset>>' # <<lpc, lkey, lcalls, ldataset>>
\* the load returned without a call of retrieve_payload
ServedFromCache == lpc = "returned" /\ calls = lcalls
\* the last dataset stored for the key is still within its window
InWindow(k) ==
    /\ hstored[k] # NoEntry
    /\ ~hstored[k].cleared
    /\ now < hstored[k].at + CACHE_TTL_SECONDS

\* C13: a load within the freshness window of the last completed load of
\* the key, the cache not cleared since, makes no network call and returns
\* the dataset of that load; the function body runs only when no dataset
\* was stored, the window has expired or the cache was cleared; and every
\* load makes at most one network call.
C13_CacheDeduplicatesFetches ==
    /\ [](/\ pc \notin {"idle", "returned", "raised"} => Missed /\ calls = lcalls + 1
          /\ calls - lcalls \in {0, 1})
    /\ [][/\ LoadIdle /\ Missed' => ~InWindow(lkey')
          /\ Hit => /\ InWindow(lkey')
                    /\ ldataset' = hstored[lkey'].value
                    /\ lpc' = "returned"
                    /\ UNCHANGED retrievalVars
          /\ pc' = "fetch_forecast" => pc \in {"fetch_forecast", "ensure_database"}
          /\ pc = "fetch_forecast" /\ pc' # pc => response = NoResponse /\ response' # NoResponse
          /\ response' # response /\ response' # NoResponse => pc = "fetch_forecast" /\ Missed]_vars

\* the dataset fetched at a first load is served again in the last second
\* of its window, and no second call of retrieve_payload was made
C13_Witness ==
    /\ ServedFromCache
    /\ calls = 1
    /\ hstored[lkey].value.source = "live"
    /\ hstored[lkey].value.locations # <<>>
    /\ now = hstored[lkey].at + CACHE_TTL_SECONDS - 1
    /\ ldataset = hstored[lkey].value

(***************************************************************************)
(* Properties of resolve_icon.                                             *)
(***************************************************************************)
\* the slot with one more leading zero on its code
Padded(slot) == [slot EXCEPT !.weather_code = JStr("0" \o slot.weather_code.v)]

\* the code is missing, or neither it nor its unpadded form is a key of the map
Unmapped(slot) ==
    \/ ~Truthy(slot.weather_code)
    \/ /\ slot.weather_code.v \notin DOMAIN WEATHER_ICON_MAP
       /\ lstrip(slot.weather_code.v, "0") \notin DOMAIN WEATHER_ICON_MAP

WeatherHas(slot, ch) == IsStr(slot.weather) /\ Contains(slot.weather.v, ch)

SameIconWhenPadded ==
    ipc = "done" /\ IsStr(islot.weather_code) => resolve_icon(Padded(islot)) = iicon

\* C11 as stated: a code and the code with leading zeros resolve to the same
\* icon, and a slot with an unmapped or missing code whose weather text has
\* the rain character resolves to the rain icon.
C11_RainTextGivesRainIcon ==
    /\ SameIconWhenPadded
    /\ ipc = "done" /\ Unmapped(islot) /\ WeatherHas(islot, Rain) => iicon = IconRain

\* C11 amended: a code and the code with leading zeros resolve to the same
\* icon, and a slot with an unmapped or missing code whose weather text has
\* the rain character and neither the tide nor the thunder character
\* resolves to the rain icon.
C11_IconResolution ==
    /\ SameIconWhenPadded
    /\ ipc = "done" /\ Unmapped(islot) /\ WeatherHas(islot, Rain)
          /\ ~WeatherHas(islot, Tide) /\ ~WeatherHas(islot, Thunder)
       => iicon = IconRain

\* "08" resolved to the icon of "8" although the text speaks of rain alone
C11_Witness ==
    /\ ipc = "done"
    /\ islot.weather_code = JStr("08")
    /\ islot.weather = JStr("<duo>" \o Rain)
    /\ iicon = WEATHER_ICON_MAP["8"]
    /\ resolve_icon([islot EXCEPT !.weather_code = JStr("88")]) = IconRain
====
